---- MODULE Spec2Model ----
(***************************************************************************)
(* Selphi (src/src/components/selphi.jsx): a React component that mirrors  *)
(* three Firestore collections (pages, widgets, feed posts), derives the   *)
(* per-page views, and writes new documents through three form handlers.   *)
(*                                                                         *)
(* Text (a JS string) is a sequence of symbols.  The symbols with a role   *)
(* in JSON are named below; every other symbol is an ordinary character.   *)
(***************************************************************************)
EXTENDS Integers, Sequences, FiniteSets, TLC

\* ------------------------------------------------------------------ bounds
\* longest string typed into a settings field in the storage specification
MaxStrLen == 2
\* documents a client writes in one behaviour of the component specifications
MaxWrites == 2
\* longest widget list drawn as a fixture for the derived views
MaxWidgets == 3
\* documents written in one behaviour of the forms specification
MaxFormWrites == 1
\* runs of the initializer's try block by one instance of the component
MaxInits == 2

\* ------------------------------------------------------------- JS values
DQ == "dquote"
BS == "bslash"
LB == "lbrace"
RB == "rbrace"
COLON == "colon"
COMMA == "comma"
SP == "space"
Digits == {"0", "1", "2"}
Literals == {"null", "true", "false"}

Undefined == [t |-> "undefined", v |-> 0]
Null == [t |-> "null", v |-> 0]
Str(s) == [t |-> "string", v |-> s]
Num(n) == [t |-> "number", v |-> n]
Bool(b) == [t |-> "boolean", v |-> b]
\* an object is its sequence of <<key, value>> pairs, in insertion order
Obj(pairs) == [t |-> "object", v |-> pairs]

\* JS truthiness (ToBoolean): what `!x`, `x ? a : b` and `x || y` test
Truthy(x) ==
    CASE x.t = "string" -> x.v # <<>>
      [] x.t = "number" -> x.v # 0
      [] x.t = "boolean" -> x.v
      [] x.t \in {"object", "handle", "user"} -> TRUE
      [] OTHER -> FALSE

\* obj[k] on a JS value: a property of an object, undefined on other
\* non-null values; on null and undefined the read throws a TypeError
HasKey(pairs, k) == \E i \in 1..Len(pairs) : pairs[i][1] = k
Lookup(pairs, k) ==
    IF HasKey(pairs, k)
    THEN pairs[CHOOSE i \in 1..Len(pairs) : pairs[i][1] = k][2]
    ELSE Undefined
GetProp(x, k) ==
    CASE x.t = "object" -> [throws |-> FALSE, val |-> Lookup(x.v, k)]
      [] x.t \in {"null", "undefined"} -> [throws |-> TRUE, val |-> Undefined]
      [] OTHER -> [throws |-> FALSE, val |-> Undefined]

\* ------------------------------------------------------------------ JSON
\* JSON.stringify of a string: quoted, with quote and backslash escaped
RECURSIVE EscapeStr(_)
EscapeStr(s) ==
    IF s = <<>> THEN <<>>
    ELSE (IF Head(s) \in {DQ, BS} THEN <<BS, Head(s)>> ELSE <<Head(s)>>)
         \o EscapeStr(Tail(s))
QuoteStr(s) == <<DQ>> \o EscapeStr(s) \o <<DQ>>

RECURSIVE DigitsOf(_)
DigitsOf(n) ==
    LET d == CHOOSE c \in Digits \cup {"3", "4", "5", "6", "7", "8", "9"} :
                 c = ToString(n % 10)
    IN  IF n < 10 THEN <<d>> ELSE DigitsOf(n \div 10) \o <<d>>

RECURSIVE JSONStringify(_)
RECURSIVE StringifyMembers(_)
StringifyMembers(pairs) ==
    IF pairs = <<>> THEN <<>>
    ELSE QuoteStr(pairs[1][1]) \o <<COLON>> \o JSONStringify(pairs[1][2])
         \o (IF Len(pairs) > 1 THEN <<COMMA>> ELSE <<>>)
         \o StringifyMembers(Tail(pairs))
JSONStringify(x) ==
    CASE x.t = "string" -> QuoteStr(x.v)
      [] x.t = "number" -> DigitsOf(x.v)
      [] x.t = "boolean" -> IF x.v THEN <<"true">> ELSE <<"false">>
      [] x.t = "object" -> <<LB>> \o StringifyMembers(x.v) \o <<RB>>
      [] OTHER -> <<"null">>

\* JSON.parse: a recursive-descent parser over the symbols.  A result is
\* [ok, val, rest]; ok = FALSE is the SyntaxError JSON.parse throws.
ParseFail == [ok |-> FALSE, val |-> Undefined, rest |-> <<>>]
ParseOk(v, rest) == [ok |-> TRUE, val |-> v, rest |-> rest]

RECURSIVE SkipWs(_)
SkipWs(s) == IF s # <<>> /\ Head(s) = SP THEN SkipWs(Tail(s)) ELSE s

\* the characters of a string literal after its opening quote
RECURSIVE ParseChars(_, _)
ParseChars(s, acc) ==
    IF s = <<>> THEN ParseFail
    ELSE IF Head(s) = DQ THEN ParseOk(Str(acc), Tail(s))
    ELSE IF Head(s) = BS
         THEN IF Len(s) >= 2 /\ s[2] \in {DQ, BS}
              THEN ParseChars(Tail(Tail(s)), Append(acc, s[2]))
              ELSE ParseFail
    ELSE ParseChars(Tail(s), Append(acc, Head(s)))

RECURSIVE ParseDigits(_, _)
ParseDigits(s, n) ==
    IF s # <<>> /\ Head(s) \in Digits
    THEN ParseDigits(Tail(s), 10 * n + (CHOOSE k \in 0..9 : ToString(k) = Head(s)))
    ELSE ParseOk(Num(n), s)

\* a key already present keeps its position and takes the new value
PutPair(pairs, k, v) ==
    IF HasKey(pairs, k)
    THEN [i \in 1..Len(pairs) |-> IF pairs[i][1] = k THEN <<k, v>> ELSE pairs[i]]
    ELSE Append(pairs, <<k, v>>)

RECURSIVE ParseValue(_)
RECURSIVE ParseMembers(_, _)
ParseMembers(s0, acc) ==
    LET s == SkipWs(s0) IN
    IF s = <<>> \/ Head(s) # DQ THEN ParseFail
    ELSE LET k == ParseChars(Tail(s), <<>>) IN
         IF ~k.ok THEN ParseFail
         ELSE LET s1 == SkipWs(k.rest) IN
              IF s1 = <<>> \/ Head(s1) # COLON THEN ParseFail
              ELSE LET v == ParseValue(Tail(s1)) IN
                   IF ~v.ok THEN ParseFail
                   ELSE LET s2 == SkipWs(v.rest)
                            acc2 == PutPair(acc, k.val.v, v.val)
                        IN  IF s2 = <<>> THEN ParseFail
                            ELSE IF Head(s2) = RB THEN ParseOk(Obj(acc2), Tail(s2))
                            ELSE IF Head(s2) = COMMA THEN ParseMembers(Tail(s2), acc2)
                            ELSE ParseFail
ParseValue(s0) ==
    LET s == SkipWs(s0) IN
    IF s = <<>> THEN ParseFail
    ELSE IF Head(s) = DQ THEN ParseChars(Tail(s), <<>>)
    ELSE IF Head(s) = "null" THEN ParseOk(Null, Tail(s))
    ELSE IF Head(s) = "true" THEN ParseOk(Bool(TRUE), Tail(s))
    ELSE IF Head(s) = "false" THEN ParseOk(Bool(FALSE), Tail(s))
    ELSE IF Head(s) = "0" THEN ParseOk(Num(0), Tail(s))
    ELSE IF Head(s) \in Digits THEN ParseDigits(s, 0)
    ELSE IF Head(s) = LB
         THEN LET s1 == SkipWs(Tail(s)) IN
              IF s1 # <<>> /\ Head(s1) = RB THEN ParseOk(Obj(<<>>), Tail(s1))
              ELSE ParseMembers(s1, <<>>)
    ELSE ParseFail

\* JSON.parse(text): [throws, val]
JSONParse(text) ==
    LET r == ParseValue(text) IN
    IF r.ok /\ SkipWs(r.rest) = <<>>
    THEN [throws |-> FALSE, val |-> r.val]
    ELSE [throws |-> TRUE, val |-> Undefined]


\* ------------------------------------------------------- parseFirebaseConfig
Required == << <<"apiKey">>, <<"authDomain">>, <<"projectId">> >>

\* the loop `for (const k of required) if (!obj[k]) return null`, from key i on:
\* "null" when a key is missing or falsy, "throws" when the read throws,
\* "obj" when every key is truthy
\* mutant: a required key only has to be present
RECURSIVE CheckRequired_Present(_, _)
CheckRequired_Present(obj, i) ==
    IF i > Len(Required) THEN "obj"
    ELSE LET p == GetProp(obj, Required[i]) IN
         IF p.throws THEN "throws"
         ELSE IF p.val = Undefined THEN "null"
         ELSE CheckRequired_Present(obj, i + 1)

RECURSIVE CheckRequired(_, _)
CheckRequired(obj, i) ==
    IF i > Len(Required) THEN "obj"
    ELSE LET p == GetProp(obj, Required[i]) IN
         IF p.throws THEN "throws"
         ELSE IF ~Truthy(p.val) THEN "null"
         ELSE CheckRequired(obj, i + 1)

parseFirebaseConfig(input) ==
    IF ~Truthy(input) THEN Null
    ELSE LET parsed == IF input.t = "string"
                       THEN JSONParse(input.v)
                       ELSE [throws |-> FALSE, val |-> input]
         IN  IF parsed.throws THEN Null
             ELSE IF CheckRequired(parsed.val, 1) = "obj" THEN parsed.val
             ELSE Null

\* ----------------------------------------------------------- useLocalStorage
StorageKeys == {"selphi_firebase_config", "__initial_auth_token", "__app_id"}
NoItem == [present |-> FALSE, text |-> <<>>]
Item(text) == [present |-> TRUE, text |-> text]

\* the useState initializer: getItem, then JSON.parse of a non-empty item;
\* a missing or empty item, or a parse that throws, gives initialValue
useLocalStorageInit(storage, key, initialValue) ==
    LET item == storage[key] IN
    IF item.present /\ item.text # <<>>
    THEN LET r == JSONParse(item.text) IN
         IF r.throws THEN initialValue ELSE r.val
    ELSE initialValue

\* mutant: the value is stored as it is
useLocalStorageWrite_Raw(storage, key, value) ==
    [storage EXCEPT ![key] = Item(value.v)]

\* the effect: setItem(key, JSON.stringify(value))
useLocalStorageWrite(storage, key, value) ==
    [storage EXCEPT ![key] = Item(JSONStringify(value))]

\* ------------------------------------------------------------------ state
VARIABLES
    \* browser storage and the three persisted settings (useLocalStorage)
    localStorage, firebaseConfigRaw, customToken, appId,
    \* the backend SDK: registered apps, the provider's session, the
    \* component's auth listener, notifications queued for it, sign-ins in flight
    apps, session, authListener, authPending, signIns,
    \* the remote document store and its id/timestamp clock
    store, nextId,
    \* component state (useState)
    mounted, app, auth, db, user, status,
    pages, widgets, feed, activePageId,
    \* the memoized derived views (useMemo)
    leftWidgets, rightWidgets, pageFeed,
    showPageModal, showLeftWidgetModal, showRightWidgetModal,
    newPage, newWidget, newPost,
    \* the live subscriptions and the snapshots they have yet to deliver
    subs, dirty,
    \* addDoc calls awaiting their result
    inflight,
    \* observation: runs of the initializer's try block
    initAttempts

settingsVars == <<localStorage, firebaseConfigRaw, customToken, appId>>
sdkVars == <<apps, session, authListener, authPending, signIns>>
storeVars == <<store, nextId>>
connVars == <<app, auth, db, user, status, initAttempts>>
viewVars == <<leftWidgets, rightWidgets, pageFeed>>
mirrorVars == <<pages, widgets, feed, activePageId, viewVars>>
modalVars == <<showPageModal, showLeftWidgetModal, showRightWidgetModal>>
formVars == <<newPage, newWidget, newPost>>
subVars == <<subs, dirty>>
vars == <<settingsVars, sdkVars, storeVars, mounted, connVars, mirrorVars,
          modalVars, formVars, subVars, inflight>>

Handle(name) == [t |-> "handle", v |-> name]
User(uid) == [t |-> "user", v |-> uid]
Uids == {"anon", "tok"}
Collections == {"niche_pages", "widgets", "feed_posts"}
NoId == 0

\* `artifacts/${appId}/users/${user.uid}/selphi_data`
basePath(appIdVal, userVal) == <<appIdVal.v, userVal.v>>

NoSub == [on |-> FALSE, path |-> <<>>, active |-> NoId]
NoListener == [on |-> FALSE, token |-> Str(<<>>)]

\* ------------------------------------------------------------ derived views
\* `x || 0`
OrZero(x) == IF Truthy(x) THEN x ELSE Num(0)

\* Array.prototype.sort with the comparator (a,b) => (a.order||0)-(b.order||0):
\* a stable sort, so an element goes after those that do not compare greater
\* mutant: an element goes before those it compares equal to
RECURSIVE InsertByOrder_Unstable(_, _)
InsertByOrder_Unstable(sorted, w) ==
    IF sorted = <<>> THEN <<w>>
    ELSE IF OrZero(Head(sorted).order).v - OrZero(w.order).v < 0
         THEN <<Head(sorted)>> \o InsertByOrder_Unstable(Tail(sorted), w)
         ELSE <<w>> \o sorted

RECURSIVE InsertByOrder(_, _)
InsertByOrder(sorted, w) ==
    IF sorted = <<>> THEN <<w>>
    ELSE IF OrZero(Head(sorted).order).v - OrZero(w.order).v <= 0
         THEN <<Head(sorted)>> \o InsertByOrder(Tail(sorted), w)
         ELSE <<w>> \o sorted
RECURSIVE SortByOrder(_)
SortByOrder(s) ==
    IF s = <<>> THEN <<>>
    ELSE InsertByOrder(SortByOrder(SubSeq(s, 1, Len(s) - 1)), s[Len(s)])

\* mutant: the filter forgets the page
panelWidgets_AnyPage(ws, panel, active) ==
    LET Keep(w) == w.panelLocation = panel
    IN  SortByOrder(SelectSeq(ws, Keep))

\* widgets.filter(w => w.panelLocation === panel && w.pageId === active).sort(..)
panelWidgets(ws, panel, active) ==
    LET Keep(w) == w.panelLocation = panel /\ w.pageId = active
    IN  SortByOrder(SelectSeq(ws, Keep))

\* feed.filter(p => p.pageId === active)
pageFeedOf(fs, active) ==
    LET Keep(p) == p.pageId = active
    IN  SelectSeq(fs, Keep)

\* the three useMemo cells after a render with these dependencies
Views(ws, fs, active) ==
    /\ leftWidgets' = panelWidgets(ws, "left", active)
    /\ rightWidgets' = panelWidgets(ws, "right", active)
    /\ pageFeed' = pageFeedOf(fs, active)

\* ---------------------------------------------------------------- effects
\* "Initialize Firebase": `outcome` is what the SDK does in the try block
InitOutcomes == {"ok", "initializeApp throws", "getAuth throws"}
InitEffect(cfg, outcome) ==
    IF ~Truthy(cfg)
    THEN /\ status' = "Awaiting Firebase config"
         /\ UNCHANGED <<apps, app, auth, db, initAttempts>>
    ELSE /\ initAttempts' = initAttempts + 1
         /\ IF outcome = "initializeApp throws"
            THEN /\ status' = "Init error"
                 /\ UNCHANGED <<apps, app, auth, db>>
            ELSE LET existing == apps
                     appInstance == IF Len(existing) > 0 THEN existing[1]
                                    ELSE Handle("app")
                 IN  /\ apps' = IF Len(existing) > 0 THEN existing
                                 ELSE <<appInstance>>
                     /\ IF outcome = "getAuth throws"
                        THEN /\ status' = "Init error"
                             /\ UNCHANGED <<app, auth, db>>
                        ELSE /\ app' = appInstance
                             /\ auth' = Handle("auth")
                             /\ db' = Handle("db")
                             /\ status' = "Firebase initialized"

\* the outcomes the SDK can produce: initializeApp is only called when no app
\* is registered, and getAuth/getFirestore return the instances they created
PossibleOutcomes ==
    {o \in InitOutcomes :
        /\ o = "initializeApp throws" => apps = <<>>
        /\ o # "ok" => auth = Null}

\* "Authenticate": the cleanup unsubscribes the previous listener; with an
\* auth handle, onAuthStateChanged registers a listener that is first told
\* the current session
AuthEffect(run, auth2, token2) ==
    IF run
    THEN IF Truthy(auth2)
         THEN /\ authListener' = [on |-> TRUE, token |-> token2]
              /\ authPending' = <<session>>
         ELSE /\ authListener' = NoListener
              /\ authPending' = <<>>
    ELSE UNCHANGED <<authListener, authPending>>

\* "Firestore subscriptions": the cleanup unsubscribes all three; with db,
\* user and appId the effect subscribes to the three collections of basePath.
\* The pages callback closes over the activePageId of the render that ran
\* the effect.
Subscribe(db2, user2, appId2, active2) ==
    IF Truthy(db2) /\ Truthy(user2) /\ Truthy(appId2)
    THEN [c \in Collections |->
            [on |-> TRUE, path |-> basePath(appId2, user2), active |-> active2]]
    ELSE [c \in Collections |-> NoSub]

\* mutant: the cleanup leaves the feed subscription, which lives on when the
\* effect subscribes to nothing
SubsEffect_KeepsFeed(run, db2, user2, appId2) ==
    IF run
    THEN LET kept(c) == /\ c = "feed_posts"
                        /\ ~(Truthy(db2) /\ Truthy(user2) /\ Truthy(appId2))
         IN  /\ subs' = [c \in Collections |->
                           IF kept(c) THEN subs[c]
                           ELSE Subscribe(db2, user2, appId2, activePageId)[c]]
             /\ dirty' = [c \in Collections |->
                            IF kept(c) THEN dirty[c] ELSE subs'[c].on]
    ELSE UNCHANGED <<subs, dirty>>

SubsEffect(run, db2, user2, appId2) ==
    IF run
    THEN /\ subs' = Subscribe(db2, user2, appId2, activePageId)
         /\ dirty' = [c \in Collections |-> subs'[c].on]
    ELSE UNCHANGED <<subs, dirty>>

\* ------------------------------------------------------------ construction
InitialPage == [name |-> <<>>, privacyLevel |-> "private"]
InitialWidget == [type |-> "link", content |-> <<>>, order |-> Num(0)]
InitialPost == <<>>

\* the component as useState leaves it, for a browser storage `ls`, a
\* provider session `sess` and a remote store `st`
Construct(ls, sess, st) ==
    /\ localStorage = ls
    /\ firebaseConfigRaw = useLocalStorageInit(ls, "selphi_firebase_config", Str(<<>>))
    /\ customToken = useLocalStorageInit(ls, "__initial_auth_token", Str(<<>>))
    /\ appId = useLocalStorageInit(ls, "__app_id", Str(<<>>))
    /\ apps = <<>> /\ session = sess
    /\ authListener = NoListener /\ authPending = <<>> /\ signIns = <<>>
    /\ store = st /\ nextId = 100
    /\ mounted = FALSE
    /\ app = Null /\ auth = Null /\ db = Null /\ user = Null
    /\ status = "Not connected"
    /\ pages = <<>> /\ widgets = <<>> /\ feed = <<>> /\ activePageId = NoId
    /\ leftWidgets = <<>> /\ rightWidgets = <<>> /\ pageFeed = <<>>
    /\ showPageModal = FALSE /\ showLeftWidgetModal = FALSE
    /\ showRightWidgetModal = FALSE
    /\ newPage = InitialPage /\ newWidget = InitialWidget /\ newPost = InitialPost
    /\ subs = [c \in Collections |-> NoSub]
    /\ dirty = [c \in Collections |-> FALSE]
    /\ inflight = <<>>
    /\ initAttempts = 0

\* the first commit: every effect runs once, then those whose dependencies
\* the initializer changed run again
Mount ==
    /\ ~mounted
    /\ mounted' = TRUE
    /\ localStorage' =
         useLocalStorageWrite(
           useLocalStorageWrite(
             useLocalStorageWrite(localStorage, "selphi_firebase_config", firebaseConfigRaw),
             "__initial_auth_token", customToken),
           "__app_id", appId)
    /\ \E outcome \in PossibleOutcomes :
         InitEffect(parseFirebaseConfig(firebaseConfigRaw), outcome)
    /\ AuthEffect(auth' # auth, auth', customToken)
    /\ SubsEffect(db' # db, db', user, appId)
    /\ UNCHANGED <<firebaseConfigRaw, customToken, appId, session, signIns,
                   storeVars, user, mirrorVars, modalVars, formVars, inflight>>

\* ---------------------------------------------------------------- settings
\* onChange of the config textarea: setFirebaseConfigRaw, the storage effect,
\* the firebaseConfig memo and, when its result is a new object or changes
\* to or from null, the initializer
SetFirebaseConfigRaw(text) ==
    /\ mounted
    /\ Str(text) # firebaseConfigRaw
    /\ firebaseConfigRaw' = Str(text)
    /\ localStorage' = useLocalStorageWrite(localStorage, "selphi_firebase_config", Str(text))
    /\ LET old == parseFirebaseConfig(firebaseConfigRaw)
           new == parseFirebaseConfig(Str(text))
       IN  IF Truthy(old) \/ Truthy(new)
           THEN \E outcome \in PossibleOutcomes : InitEffect(new, outcome)
           ELSE UNCHANGED <<apps, app, auth, db, status, initAttempts>>
    /\ AuthEffect(auth' # auth, auth', customToken)
    /\ SubsEffect(db' # db, db', user, appId)
    /\ UNCHANGED <<customToken, appId, session, signIns, storeVars, mounted,
                   user, mirrorVars, modalVars, formVars, inflight>>

SetCustomToken(text) ==
    /\ mounted
    /\ Str(text) # customToken
    /\ customToken' = Str(text)
    /\ localStorage' = useLocalStorageWrite(localStorage, "__initial_auth_token", Str(text))
    /\ AuthEffect(TRUE, auth, Str(text))
    /\ UNCHANGED <<firebaseConfigRaw, appId, apps, session, signIns, storeVars,
                   mounted, connVars, mirrorVars, modalVars, formVars, subVars,
                   inflight>>

SetAppId(text) ==
    /\ mounted
    /\ Str(text) # appId
    /\ appId' = Str(text)
    /\ localStorage' = useLocalStorageWrite(localStorage, "__app_id", Str(text))
    /\ SubsEffect(TRUE, db, user, Str(text))
    /\ UNCHANGED <<firebaseConfigRaw, customToken, sdkVars, storeVars, mounted,
                   connVars, mirrorVars, modalVars, formVars, inflight>>

\* the component is unmounted: the cleanups of the effects unsubscribe the
\* session listener and the three subscriptions, and awaits still pending
\* resume in an instance that is gone.  The state left is the one useState
\* gives the next instance: the settings as read from browser storage.
Unmount ==
    /\ mounted
    /\ mounted' = FALSE
    /\ authListener' = NoListener /\ authPending' = <<>>
    /\ subs' = [c \in Collections |-> NoSub]
    /\ dirty' = [c \in Collections |-> FALSE]
    /\ signIns' = [i \in 1..Len(signIns) |-> [signIns[i] EXCEPT !.live = FALSE]]
    /\ inflight' = [i \in 1..Len(inflight) |-> [inflight[i] EXCEPT !.live = FALSE]]
    /\ firebaseConfigRaw' = useLocalStorageInit(localStorage, "selphi_firebase_config", Str(<<>>))
    /\ customToken' = useLocalStorageInit(localStorage, "__initial_auth_token", Str(<<>>))
    /\ appId' = useLocalStorageInit(localStorage, "__app_id", Str(<<>>))
    /\ app' = Null /\ auth' = Null /\ db' = Null /\ user' = Null
    /\ status' = "Not connected"
    /\ initAttempts' = 0
    /\ pages' = <<>> /\ widgets' = <<>> /\ feed' = <<>> /\ activePageId' = NoId
    /\ Views(<<>>, <<>>, NoId)
    /\ showPageModal' = FALSE /\ showLeftWidgetModal' = FALSE
    /\ showRightWidgetModal' = FALSE
    /\ newPage' = InitialPage /\ newWidget' = InitialWidget /\ newPost' = InitialPost
    /\ UNCHANGED <<localStorage, apps, session, storeVars>>

\* ----------------------------------------------------------- authentication
\* sign-in attempts awaiting their result at one time
MaxSignIns == 1
\* session notifications queued for the listener at one time
MaxPending == 2

\* the onAuthStateChanged callback, told the head of the queue: a user is
\* stored (and the subscriptions effect runs when it is another user); with no
\* user a sign-in is started, with the token the listener closed over
AuthNotify ==
    /\ authListener.on /\ authPending # <<>>
    /\ authPending' = Tail(authPending)
    /\ LET u == Head(authPending) IN
       IF Truthy(u)
       THEN /\ user' = u
            /\ status' = "Authenticated"
            /\ SubsEffect(u # user, db, u, appId)
            /\ UNCHANGED signIns
       ELSE /\ Len(signIns) < MaxSignIns
            /\ IF Truthy(authListener.token)
               THEN /\ status' = "Signing in with custom token..."
                    /\ signIns' = Append(signIns, [method |-> "token", live |-> TRUE])
               ELSE /\ status' = "Signing in anonymously..."
                    /\ signIns' = Append(signIns, [method |-> "anon", live |-> TRUE])
            /\ UNCHANGED <<user, subs, dirty>>
    /\ UNCHANGED <<settingsVars, apps, session, authListener, storeVars, mounted,
                   app, auth, db, initAttempts, mirrorVars, modalVars, formVars,
                   inflight>>

\* the provider tells the registered listener of a session change
NotifyListener(u) ==
    IF authListener.on THEN Append(authPending, u) ELSE authPending

\* signInWithCustomToken / signInAnonymously resolves: the provider holds the
\* new session and notifies the listener
SignInResolve ==
    /\ signIns # <<>>
    /\ Len(authPending) < MaxPending
    /\ signIns' = Tail(signIns)
    /\ LET u == IF Head(signIns).method = "token" THEN User("tok")
                ELSE IF Truthy(session) THEN session ELSE User("anon")
       IN  /\ session' = u
           /\ authPending' = IF u # session THEN NotifyListener(u) ELSE authPending
    /\ UNCHANGED <<settingsVars, apps, authListener, storeVars, mounted, connVars,
                   mirrorVars, modalVars, formVars, subVars, inflight>>

\* mutant: a rejected sign-in has the callback told again that there is no
\* session, which starts the next attempt
SignInReject_Retries ==
    /\ signIns # <<>>
    /\ Len(authPending) < MaxPending
    /\ signIns' = Tail(signIns)
    /\ status' = IF Head(signIns).live THEN "Auth error" ELSE status
    /\ authPending' = NotifyListener(Null)
    /\ UNCHANGED <<settingsVars, apps, session, authListener,
                   storeVars, mounted, app, auth, db, user, initAttempts,
                   mirrorVars, modalVars, formVars, subVars, inflight>>

\* ... or rejects: the catch block sets the status (of the instance that
\* started the sign-in, if it is still there)
SignInReject ==
    /\ signIns # <<>>
    /\ signIns' = Tail(signIns)
    /\ status' = IF Head(signIns).live THEN "Auth error" ELSE status
    /\ UNCHANGED <<settingsVars, apps, session, authListener, authPending,
                   storeVars, mounted, app, auth, db, user, initAttempts,
                   mirrorVars, modalVars, formVars, subVars, inflight>>

\* the session ends outside the component (sign-out in another tab, a revoked
\* account): the provider notifies the listener with no user
ProviderSignOut ==
    /\ Truthy(session)
    /\ Len(authPending) < MaxPending
    /\ session' = Null
    /\ authPending' = NotifyListener(Null)
    /\ UNCHANGED <<settingsVars, apps, authListener, signIns, storeVars, mounted,
                   connVars, mirrorVars, modalVars, formVars, subVars, inflight>>

\* ---------------------------------------------------------- the remote store
\* a collection that holds no document is empty
Docs(st, path, c) == IF path \in DOMAIN st THEN st[path][c] ELSE <<>>

\* orderBy('timestamp', 'desc'): latest first
RECURSIVE InsertByTimeDesc(_, _)
InsertByTimeDesc(sorted, p) ==
    IF sorted = <<>> THEN <<p>>
    ELSE IF Head(sorted).timestamp >= p.timestamp
         THEN <<Head(sorted)>> \o InsertByTimeDesc(Tail(sorted), p)
         ELSE <<p>> \o sorted
RECURSIVE OrderByTimeDesc(_)
OrderByTimeDesc(s) ==
    IF s = <<>> THEN <<>>
    ELSE InsertByTimeDesc(OrderByTimeDesc(SubSeq(s, 1, Len(s) - 1)), s[Len(s)])

\* snap.docs.map(d => ({ id: d.id, ...d.data() })) of a subscription's query
Snapshot(st, path, c) ==
    IF c = "feed_posts" THEN OrderByTimeDesc(Docs(st, path, c)) ELSE Docs(st, path, c)

\* ---------------------------------------------------------------- snapshots
\* list.find(p => p.isDefault) || list[0], then def ? def.id : null
DefaultPageId(list) ==
    IF \E i \in 1..Len(list) : list[i].isDefault
    THEN list[CHOOSE i \in 1..Len(list) :
                 /\ list[i].isDefault
                 /\ \A j \in 1..(i - 1) : ~list[j].isDefault].id
    ELSE IF Len(list) > 0 THEN list[1].id
    ELSE NoId

\* whether the pages callback chooses a page: `!activePageId`, on the
\* activePageId its closure holds
ChoosesPage(sub) == sub.active = NoId

DeliverPages ==
    /\ subs["niche_pages"].on /\ dirty["niche_pages"]
    /\ dirty' = [dirty EXCEPT !["niche_pages"] = FALSE]
    /\ LET list == Snapshot(store, subs["niche_pages"].path, "niche_pages") IN
       /\ pages' = list
       /\ activePageId' = IF ChoosesPage(subs["niche_pages"])
                          THEN DefaultPageId(list) ELSE activePageId
    /\ Views(widgets, feed, activePageId')
    /\ UNCHANGED <<settingsVars, sdkVars, storeVars, mounted, connVars, widgets,
                   feed, modalVars, formVars, subs, inflight>>

\* mutant: a widgets snapshot that arrives before the pages is dropped
DeliverWidgets_NeedsPages ==
    /\ subs["widgets"].on /\ dirty["widgets"]
    /\ dirty' = [dirty EXCEPT !["widgets"] = FALSE]
    /\ widgets' = IF pages = <<>> THEN widgets
                  ELSE Snapshot(store, subs["widgets"].path, "widgets")
    /\ Views(widgets', feed, activePageId)
    /\ UNCHANGED <<settingsVars, sdkVars, storeVars, mounted, connVars, pages,
                   feed, activePageId, modalVars, formVars, subs, inflight>>

DeliverWidgets ==
    /\ subs["widgets"].on /\ dirty["widgets"]
    /\ dirty' = [dirty EXCEPT !["widgets"] = FALSE]
    /\ widgets' = Snapshot(store, subs["widgets"].path, "widgets")
    /\ Views(widgets', feed, activePageId)
    /\ UNCHANGED <<settingsVars, sdkVars, storeVars, mounted, connVars, pages,
                   feed, activePageId, modalVars, formVars, subs, inflight>>

DeliverFeed ==
    /\ subs["feed_posts"].on /\ dirty["feed_posts"]
    /\ dirty' = [dirty EXCEPT !["feed_posts"] = FALSE]
    /\ feed' = Snapshot(store, subs["feed_posts"].path, "feed_posts")
    /\ Views(widgets, feed', activePageId)
    /\ UNCHANGED <<settingsVars, sdkVars, storeVars, mounted, connVars, pages,
                   widgets, activePageId, modalVars, formVars, subs, inflight>>

\* a page button of the switcher: setActivePageId(p.id)
SelectPage(i) ==
    /\ mounted
    /\ i \in 1..Len(pages)
    /\ activePageId' = pages[i].id
    /\ Views(widgets, feed, activePageId')
    /\ UNCHANGED <<settingsVars, sdkVars, storeVars, mounted, connVars, pages,
                   widgets, feed, modalVars, formVars, subVars, inflight>>

\* -------------------------------------------------------- forms and modals
\* String.prototype.trim
RECURSIVE TrimStart(_)
TrimStart(s) == IF s # <<>> /\ Head(s) = SP THEN TrimStart(Tail(s)) ELSE s
RECURSIVE TrimEnd(_)
TrimEnd(s) ==
    IF s # <<>> /\ s[Len(s)] = SP THEN TrimEnd(SubSeq(s, 1, Len(s) - 1)) ELSE s
\* mutant: only leading white space is removed
trim_StartOnly(s) == TrimStart(s)

trim(s) == TrimEnd(TrimStart(s))

\* Number(x): a number is itself, a trimmed string of digits its value, the
\* empty string 0, any other string NaN
NaN == [t |-> "NaN", v |-> 0]
ToNumber(x) ==
    IF x.t = "number" THEN x
    ELSE IF x.t = "string"
         THEN LET s == trim(x.v) IN
              IF s = <<>> THEN Num(0)
              ELSE IF \A i \in 1..Len(s) : s[i] \in Digits
                   THEN ParseDigits(s, 0).val
                   ELSE NaN
    ELSE NaN

OpenPageModal ==
    /\ mounted /\ showPageModal' = TRUE
    /\ UNCHANGED <<settingsVars, sdkVars, storeVars, mounted, connVars, mirrorVars,
                   showLeftWidgetModal, showRightWidgetModal, formVars, subVars,
                   inflight>>
ClosePageModal ==
    /\ showPageModal /\ showPageModal' = FALSE
    /\ UNCHANGED <<settingsVars, sdkVars, storeVars, mounted, connVars, mirrorVars,
                   showLeftWidgetModal, showRightWidgetModal, formVars, subVars,
                   inflight>>
OpenLeftWidgetModal ==
    /\ mounted /\ showLeftWidgetModal' = TRUE
    /\ UNCHANGED <<settingsVars, sdkVars, storeVars, mounted, connVars, mirrorVars,
                   showPageModal, showRightWidgetModal, formVars, subVars,
                   inflight>>
OpenRightWidgetModal ==
    /\ mounted /\ showRightWidgetModal' = TRUE
    /\ UNCHANGED <<settingsVars, sdkVars, storeVars, mounted, connVars, mirrorVars,
                   showPageModal, showLeftWidgetModal, formVars, subVars,
                   inflight>>
CloseWidgetModal ==
    /\ showLeftWidgetModal \/ showRightWidgetModal
    /\ showLeftWidgetModal' = FALSE /\ showRightWidgetModal' = FALSE
    /\ UNCHANGED <<settingsVars, sdkVars, storeVars, mounted, connVars, mirrorVars,
                   showPageModal, formVars, subVars, inflight>>

\* the inputs of the page modal, of the widget modal, and the post input
SetNewPageName(text) ==
    /\ showPageModal
    /\ newPage' = [newPage EXCEPT !.name = text]
    /\ UNCHANGED <<settingsVars, sdkVars, storeVars, mounted, connVars, mirrorVars,
                   modalVars, newWidget, newPost, subVars, inflight>>
SetNewPagePrivacy(level) ==
    /\ showPageModal
    /\ newPage' = [newPage EXCEPT !.privacyLevel = level]
    /\ UNCHANGED <<settingsVars, sdkVars, storeVars, mounted, connVars, mirrorVars,
                   modalVars, newWidget, newPost, subVars, inflight>>
SetNewWidgetType(type) ==
    /\ showLeftWidgetModal \/ showRightWidgetModal
    /\ newWidget' = [newWidget EXCEPT !.type = type]
    /\ UNCHANGED <<settingsVars, sdkVars, storeVars, mounted, connVars, mirrorVars,
                   modalVars, newPage, newPost, subVars, inflight>>
SetNewWidgetContent(text) ==
    /\ showLeftWidgetModal \/ showRightWidgetModal
    /\ newWidget' = [newWidget EXCEPT !.content = text]
    /\ UNCHANGED <<settingsVars, sdkVars, storeVars, mounted, connVars, mirrorVars,
                   modalVars, newPage, newPost, subVars, inflight>>
SetNewWidgetOrder(text) ==
    /\ showLeftWidgetModal \/ showRightWidgetModal
    /\ newWidget' = [newWidget EXCEPT !.order = Str(text)]
    /\ UNCHANGED <<settingsVars, sdkVars, storeVars, mounted, connVars, mirrorVars,
                   modalVars, newPage, newPost, subVars, inflight>>
SetNewPost(text) ==
    /\ mounted
    /\ newPost' = text
    /\ UNCHANGED <<settingsVars, sdkVars, storeVars, mounted, connVars, mirrorVars,
                   modalVars, newPage, newWidget, subVars, inflight>>

\* ------------------------------------------------------------- the handlers
\* addDoc calls made so far that reached the store or still await it
Issued == (nextId - 100) + Len(inflight)

\* mutant: the guard forgets the application id
NoSession_IgnoresAppId(db2, user2, appId2) == ~Truthy(db2) \/ ~Truthy(user2)

\* `!db || !user || !appId`, the first guard of the three handlers
NoSession(db2, user2, appId2) == ~Truthy(db2) \/ ~Truthy(user2) \/ ~Truthy(appId2)

\* mutant: every new page is marked default
NewPageIsDefault_Always(list) == TRUE

\* `isDefault: pages.length === 0`
NewPageIsDefault(list) == Len(list) = 0

\* createPage up to its await: the addDoc call is in flight
CreatePage ==
    /\ mounted
    /\ IF NoSession(db, user, appId) THEN UNCHANGED inflight
       ELSE IF trim(newPage.name) = <<>> THEN UNCHANGED inflight
       ELSE /\ Issued < MaxWrites
            /\ inflight' = Append(inflight,
                 [kind |-> "page", c |-> "niche_pages", live |-> TRUE,
                  path |-> basePath(appId, user), panel |-> "none",
                  doc |-> [userId |-> user.v, name |-> trim(newPage.name),
                           privacyLevel |-> newPage.privacyLevel,
                           isDefault |-> NewPageIsDefault(pages)]])
    /\ UNCHANGED <<settingsVars, sdkVars, storeVars, mounted, connVars, mirrorVars,
                   modalVars, formVars, subVars>>

CreateWidget(panelLocation) ==
    /\ mounted
    /\ IF NoSession(db, user, appId) \/ activePageId = NoId
       THEN UNCHANGED inflight
       ELSE IF trim(newWidget.content) = <<>> THEN UNCHANGED inflight
       ELSE /\ Issued < MaxWrites
            /\ inflight' = Append(inflight,
                 [kind |-> "widget", c |-> "widgets", live |-> TRUE,
                  path |-> basePath(appId, user), panel |-> panelLocation,
                  doc |-> [userId |-> user.v, type |-> newWidget.type,
                           content |-> trim(newWidget.content),
                           panelLocation |-> panelLocation,
                           order |-> OrZero(ToNumber(newWidget.order)),
                           pageId |-> activePageId]])
    /\ UNCHANGED <<settingsVars, sdkVars, storeVars, mounted, connVars, mirrorVars,
                   modalVars, formVars, subVars>>

CreatePost ==
    /\ mounted
    /\ IF NoSession(db, user, appId) \/ activePageId = NoId
       THEN UNCHANGED inflight
       ELSE IF trim(newPost) = <<>> THEN UNCHANGED inflight
       ELSE /\ Issued < MaxWrites
            /\ inflight' = Append(inflight,
                 [kind |-> "post", c |-> "feed_posts", live |-> TRUE,
                  path |-> basePath(appId, user), panel |-> "none",
                  doc |-> [userId |-> user.v, content |-> trim(newPost),
                           pageId |-> activePageId]])
    /\ UNCHANGED <<settingsVars, sdkVars, storeVars, mounted, connVars, mirrorVars,
                   modalVars, formVars, subVars>>

\* `doc` with the id and the server time the store gives it
Stored(w) ==
    IF w.kind = "page"
    THEN [id |-> nextId, userId |-> w.doc.userId, name |-> w.doc.name,
          privacyLevel |-> w.doc.privacyLevel, isDefault |-> w.doc.isDefault,
          createdAt |-> nextId]
    ELSE IF w.kind = "widget"
    THEN [id |-> nextId, userId |-> w.doc.userId, type |-> w.doc.type,
          content |-> w.doc.content, panelLocation |-> w.doc.panelLocation,
          order |-> w.doc.order, pageId |-> w.doc.pageId, createdAt |-> nextId]
    ELSE [id |-> nextId, userId |-> w.doc.userId, content |-> w.doc.content,
          pageId |-> w.doc.pageId, timestamp |-> nextId]

EmptyCollections == [c \in Collections |-> <<>>]
AddTo(st, path, c, d) ==
    [p \in DOMAIN st \cup {path} |->
        IF p = path
        THEN [(IF p \in DOMAIN st THEN st[p] ELSE EmptyCollections)
                 EXCEPT ![c] = Append(@, d)]
        ELSE st[p]]

Without(s, i) == SubSeq(s, 1, i - 1) \o SubSeq(s, i + 1, Len(s))

\* the statements after `await addDoc(...)`; the setters of an instance that
\* was unmounted meanwhile do nothing
AfterWrite(w) ==
    IF ~w.live THEN UNCHANGED <<formVars, modalVars>>
    ELSE IF w.kind = "page"
    THEN /\ newPage' = InitialPage
         /\ showPageModal' = FALSE
         /\ UNCHANGED <<newWidget, newPost, showLeftWidgetModal, showRightWidgetModal>>
    ELSE IF w.kind = "widget"
    THEN /\ newWidget' = InitialWidget
         /\ IF w.panel = "left"
            THEN showLeftWidgetModal' = FALSE /\ UNCHANGED showRightWidgetModal
            ELSE showRightWidgetModal' = FALSE /\ UNCHANGED showLeftWidgetModal
         /\ UNCHANGED <<newPage, newPost, showPageModal>>
    ELSE /\ newPost' = InitialPost
         /\ UNCHANGED <<newPage, newWidget, modalVars>>

\* an addDoc call resolves: the document is in the store, the subscriptions
\* on its collection have a snapshot to deliver, and the handler resumes
AddDocResolve(i) ==
    /\ i \in 1..Len(inflight)
    /\ LET w == inflight[i] IN
       /\ store' = AddTo(store, w.path, w.c, Stored(w))
       /\ nextId' = nextId + 1
       /\ dirty' = [c \in Collections |->
                      dirty[c] \/ (c = w.c /\ subs[c].on /\ subs[c].path = w.path)]
       /\ AfterWrite(w)
    /\ inflight' = Without(inflight, i)
    /\ UNCHANGED <<settingsVars, sdkVars, mounted, connVars, mirrorVars, subs>>

\* ... or rejects: the handler ends at the await, with the exception
AddDocReject(i) ==
    /\ i \in 1..Len(inflight)
    /\ inflight' = Without(inflight, i)
    /\ UNCHANGED <<settingsVars, sdkVars, storeVars, mounted, connVars, mirrorVars,
                   modalVars, formVars, subVars>>

\* ----------------------------------------------------------------- fixtures
Member(k, v) == QuoteStr(<<k>>) \o <<COLON>> \o QuoteStr(v)
ConfigText ==
    <<LB>> \o Member("apiKey", <<"k">>) \o <<COMMA>> \o Member("authDomain", <<"d">>)
           \o <<COMMA>> \o Member("projectId", <<"p">>) \o <<RB>>

\* what an earlier session of the component left in browser storage
Persisted(config, token, id) ==
    [k \in StorageKeys |->
        Item(JSONStringify(Str(
            IF k = "selphi_firebase_config" THEN config
            ELSE IF k = "__initial_auth_token" THEN token ELSE id)))]
EmptyStorage == [k \in StorageKeys |-> NoItem]

AppIdTexts == {<<"a">>, <<"b">>}
StorePaths == {<<a, u>> : a \in AppIdTexts, u \in Uids}
EmptyStore == [p \in StorePaths |-> EmptyCollections]

FxPage(id, isDefault) ==
    [id |-> id, userId |-> "anon", name |-> <<"page">>, privacyLevel |-> "public",
     isDefault |-> isDefault, createdAt |-> id]
FxWidget(id, panel, order, pageId) ==
    [id |-> id, userId |-> "anon", type |-> "text", content |-> <<"w">>,
     panelLocation |-> panel, order |-> order, pageId |-> pageId, createdAt |-> id]
FxPost(id, pageId) ==
    [id |-> id, userId |-> "anon", content |-> <<"post">>, pageId |-> pageId,
     timestamp |-> id]

\* two pages with widgets and posts, left by earlier sessions under app "a"
FixtureStore ==
    [EmptyStore EXCEPT ![<<<<"a">>, "anon">>] =
        [niche_pages |-> <<FxPage(1, TRUE), FxPage(2, FALSE)>>,
         widgets |-> <<FxWidget(11, "left", Num(2), 1), FxWidget(12, "left", Undefined, 1),
                       FxWidget(13, "right", Num(1), 2), FxWidget(14, "left", Num(1), 2)>>,
         feed_posts |-> <<FxPost(21, 1), FxPost(22, 2), FxPost(23, 1)>>]]

\* ------------------------------------------------- the component, connected
\* A browser that holds a valid configuration and an application id, over an
\* empty or a populated store: the component mounts, signs in, subscribes,
\* and the user switches pages, changes the application id and creates pages.
Init ==
    \E st \in {EmptyStore, FixtureStore} :
        Construct(Persisted(ConfigText, <<>>, <<"a">>), Null, st)

Next ==
    \/ Mount
    \/ AuthNotify
    \/ SignInResolve
    \/ \E a \in AppIdTexts : SetAppId(a)
    \/ DeliverPages
    \/ DeliverWidgets
    \/ DeliverFeed
    \/ \E i \in 1..2 : SelectPage(i)
    \/ OpenPageModal
    \/ SetNewPageName(<<SP, "n", SP>>)
    \/ showPageModal /\ CreatePage
    \/ \E i \in 1..MaxWrites : AddDocResolve(i)
    \/ \E i \in 1..MaxWrites : AddDocReject(i)

Spec == Init /\ [][Next]_vars

Range(s) == {s[i] : i \in 1..Len(s)}

\* C2: in every reachable state, so also right after a page is selected in
\* the switcher, each derived view holds exactly the mirrored records of its
\* kind (left widgets, right widgets, posts) whose pageId is activePageId:
\* none of another page, and every one of the active page.
C2_ViewsScopedToActivePage ==
    /\ Range(leftWidgets) =
         {w \in Range(widgets) : w.panelLocation = "left" /\ w.pageId = activePageId}
    /\ Range(rightWidgets) =
         {w \in Range(widgets) : w.panelLocation = "right" /\ w.pageId = activePageId}
    /\ Range(pageFeed) = {p \in Range(feed) : p.pageId = activePageId}
    /\ Len(leftWidgets) = Cardinality(Range(leftWidgets))
    /\ Len(rightWidgets) = Cardinality(Range(rightWidgets))
    /\ Len(pageFeed) = Cardinality(Range(pageFeed))

\* page 2 was selected over the default page 1: each view shows page 2's
\* records while the mirror also holds page 1's
C2_Witness ==
    /\ activePageId = 2
    /\ DefaultPageId(pages) = 1
    /\ Len(leftWidgets) = 1 /\ Len(rightWidgets) = 1 /\ Len(pageFeed) = 1
    /\ \E w \in Range(widgets) : w.pageId = 1
    /\ \E p \in Range(feed) : p.pageId = 1

\* the pages a store holds for a path, in the order they were created
PagesAt(path) == Docs(store, path, "niche_pages")

\* C8 as claimed: whatever the interleaving of createPage calls and pages
\* snapshots, the first page created under a path is the one marked default
\* and no later page is, so a path never holds two default pages.
C8_OnlyFirstPageDefault ==
    \A path \in DOMAIN store :
        \A i \in 1..Len(PagesAt(path)) : PagesAt(path)[i].isDefault <=> (i = 1)

\* the mirror shows the store's pages of the current path and no page write
\* for that path is in flight
PagesMirrorCurrent ==
    /\ Truthy(user) /\ Truthy(appId)
    /\ pages = Snapshot(store, basePath(appId, user), "niche_pages")
    /\ \A k \in 1..Len(inflight) :
         ~(inflight[k].kind = "page" /\ inflight[k].path = basePath(appId, user))

\* C8, amended: a createPage call that writes marks the page default exactly
\* when the mirrored pages list is empty at the call; hence a page created
\* while the mirror is current is default exactly when it is the first page of
\* its path.
C8_DefaultIffMirrorEmpty ==
    [][Len(inflight') = Len(inflight) + 1 =>
        LET e == inflight'[Len(inflight')] IN
        e.kind = "page" =>
            /\ e.doc.isDefault <=> (Len(pages) = 0)
            /\ PagesMirrorCurrent => (e.doc.isDefault <=> (PagesAt(e.path) = <<>>))]_vars

\* a first page written as default is in flight, and so is a later page
\* written as not default
C8_Witness ==
    \E k \in 1..Len(inflight) :
        /\ inflight[k].kind = "page" /\ ~inflight[k].doc.isDefault
        /\ Len(pages) > 0
        /\ \E path \in DOMAIN store :
             /\ Len(PagesAt(path)) = 1 /\ PagesAt(path)[1].isDefault
             /\ PagesAt(path)[1].id >= 100

\* C10 as claimed: a pages snapshot delivered on an unchanged subscription
\* while a page is active leaves activePageId as it is.
C10_SnapshotKeepsActivePage ==
    [][(/\ subs["niche_pages"].on
        /\ dirty["niche_pages"] /\ ~dirty'["niche_pages"]
        /\ subs' = subs
        /\ activePageId # NoId)
       => activePageId' = activePageId]_vars

\* ------------------------------------------------------- the forms, submitted
\* one page, left by an earlier session under app "a"
OnePageStore ==
    [EmptyStore EXCEPT ![<<<<"a">>, "anon">>] =
        [EmptyCollections EXCEPT !["niche_pages"] = <<FxPage(1, TRUE)>>]]

\* The user opens the modals, fills the three forms (with blank and non-blank
\* text) and submits them, before and after the session is there and with and
\* without an application id; writes succeed or fail.
InitForms == Construct(Persisted(ConfigText, <<>>, <<"a">>), Null, OnePageStore)

NextForms ==
    \/ Mount
    \/ AuthNotify
    \/ SignInResolve
    \/ \E a \in {<<>>, <<"a">>} : SetAppId(a)
    \/ DeliverPages
    \/ OpenPageModal
    \/ ClosePageModal
    \/ OpenLeftWidgetModal
    \/ OpenRightWidgetModal
    \/ CloseWidgetModal
    \/ \E t \in {<<SP>>, <<SP, "n", SP>>} : SetNewPageName(t)
    \/ \E t \in {<<SP>>, <<"c", SP>>} : SetNewWidgetContent(t)
    \/ SetNewWidgetOrder(<<"2">>)
    \/ \E t \in {<<SP>>, <<SP, "p">>} : SetNewPost(t)
    \/ Issued < MaxFormWrites /\ showPageModal /\ CreatePage
    \/ Issued < MaxFormWrites /\ (showLeftWidgetModal \/ showRightWidgetModal)
         /\ CreateWidget(IF showLeftWidgetModal THEN "left" ELSE "right")
    \/ Issued < MaxFormWrites /\ CreatePost
    \/ \E i \in 1..MaxFormWrites : AddDocResolve(i)
    \/ \E i \in 1..MaxFormWrites : AddDocReject(i)

SpecForms == InitForms /\ [][NextForms]_vars

\* a call of one of the three handlers
CreateCall ==
    \/ CreatePage
    \/ \E panel \in {"left", "right"} : CreateWidget(panel)
    \/ CreatePost

\* C1: in a state where db, user or appId is absent, a call of createPage,
\* createWidget or createPost changes nothing: no addDoc call is made, so no
\* document reaches the store, and the forms and the modal flags stay as
\* they are.
C1_NoSessionNoOp ==
    (mounted /\ (~Truthy(db) \/ ~Truthy(user) \/ ~Truthy(appId))) =>
        ~ENABLED (CreateCall /\ ~UNCHANGED <<store, nextId, inflight, formVars, modalVars>>)

\* the user is signed in and a page is active, the three forms hold text and
\* the modals are open, but the application id has been cleared: only the
\* first guard stops the handlers
C1_Witness ==
    /\ mounted /\ Truthy(db) /\ Truthy(user) /\ ~Truthy(appId)
    /\ activePageId # NoId
    /\ trim(newPage.name) # <<>> /\ trim(newWidget.content) # <<>>
    /\ trim(newPost) # <<>>
    /\ showPageModal /\ showRightWidgetModal
    /\ inflight = <<>> /\ nextId = 100
    /\ ENABLED CreatePage /\ ENABLED CreateWidget("right") /\ ENABLED CreatePost

\* ------------------------------------------- the views over arbitrary content
\* the component signed in under app "a" over the store `st`, its three
\* subscriptions just made: what Mount, the sign-in and the session
\* notification lead to
Subscribed(st) ==
    /\ localStorage = Persisted(ConfigText, <<>>, <<"a">>)
    /\ firebaseConfigRaw = Str(ConfigText) /\ customToken = Str(<<>>)
    /\ appId = Str(<<"a">>)
    /\ apps = <<Handle("app")>> /\ session = User("anon")
    /\ authListener = [on |-> TRUE, token |-> Str(<<>>)]
    /\ authPending = <<>> /\ signIns = <<>>
    /\ store = st /\ nextId = 100
    /\ mounted = TRUE
    /\ app = Handle("app") /\ auth = Handle("auth") /\ db = Handle("db")
    /\ user = User("anon") /\ status = "Authenticated"
    /\ pages = <<>> /\ widgets = <<>> /\ feed = <<>> /\ activePageId = NoId
    /\ leftWidgets = <<>> /\ rightWidgets = <<>> /\ pageFeed = <<>>
    /\ showPageModal = FALSE /\ showLeftWidgetModal = FALSE
    /\ showRightWidgetModal = FALSE
    /\ newPage = InitialPage /\ newWidget = InitialWidget /\ newPost = InitialPost
    /\ subs = Subscribe(Handle("db"), User("anon"), Str(<<"a">>), NoId)
    /\ dirty = [c \in Collections |-> TRUE]
    /\ inflight = <<>>
    /\ initAttempts = 1

StoreWith(ps, ws, fs) ==
    [EmptyStore EXCEPT ![<<<<"a">>, "anon">>] =
        [niche_pages |-> ps, widgets |-> ws, feed_posts |-> fs]]

PageLists ==
    { <<>>, <<FxPage(1, FALSE)>>, <<FxPage(1, TRUE), FxPage(2, FALSE)>>,
      <<FxPage(1, FALSE), FxPage(2, TRUE)>> }

\* every widget list of at most MaxWidgets widgets of pages 1 and 2, on either
\* panel, with an order that is absent, negative or positive
WidgetShapes ==
    { [panel |-> "left", pageId |-> 1], [panel |-> "right", pageId |-> 1],
      [panel |-> "left", pageId |-> 2] }
WidgetOrders == {Undefined, Num(-1), Num(1)}
WidgetLists ==
    UNION { { [i \in 1..n |->
                 FxWidget(10 + i, f[i][1].panel, f[i][2], f[i][1].pageId)] :
              f \in [1..n -> WidgetShapes \X WidgetOrders] } : n \in 0..MaxWidgets }

\* The pages have arrived and, for every widget list, the widgets snapshot is
\* about to; the user switches between the pages.
InitViews ==
    \E ps \in PageLists \ {<<>>}, ws \in WidgetLists :
        Subscribed(StoreWith(ps, ws, <<FxPost(21, 1), FxPost(22, 2)>>))

NextViews ==
    \/ DeliverPages
    \/ DeliverWidgets
    \/ \E i \in 1..2 : SelectPage(i)

SpecViews == InitViews /\ [][NextViews]_vars

\* the value a widget is sorted by: its order, a missing order counting as 0
OrderKey(w) == IF w.order = Undefined THEN 0 ELSE w.order.v
PositionIn(s, x) == CHOOSE i \in 1..Len(s) : s[i] = x

PanelViewCorrect(view, panel) ==
    /\ Range(view) =
         {w \in Range(widgets) : w.panelLocation = panel /\ w.pageId = activePageId}
    /\ Len(view) = Cardinality(Range(view))
    /\ \A i, j \in 1..Len(view) :
         i < j =>
            /\ OrderKey(view[i]) <= OrderKey(view[j])
            /\ OrderKey(view[i]) = OrderKey(view[j]) =>
                 PositionIn(widgets, view[i]) < PositionIn(widgets, view[j])

\* C3: leftWidgets (rightWidgets) is exactly the mirrored widgets of the left
\* (right) panel and of the active page, in non-decreasing order of `order`
\* with a missing order counted as 0, widgets of equal order in their
\* snapshot order; the mirrored list itself keeps the snapshot's order.
C3_PanelWidgetsSorted ==
    /\ PanelViewCorrect(leftWidgets, "left")
    /\ PanelViewCorrect(rightWidgets, "right")
    /\ ~dirty["widgets"] => widgets = Docs(store, subs["widgets"].path, "widgets")

\* three left widgets of the active page arrived out of order: one with no
\* order between a negative and a positive one, and a tie
C3_Witness ==
    /\ ~dirty["widgets"]
    /\ Len(leftWidgets) = 3
    /\ leftWidgets # widgets
    /\ \E i \in 1..3 : leftWidgets[i].order = Undefined
    /\ \E i \in 1..3 : leftWidgets[i].order = Num(-1)
    /\ \E i, j \in 1..3 : i # j /\ OrderKey(leftWidgets[i]) = OrderKey(leftWidgets[j])

\* ----------------------------------------------------- the snapshots, in any order
WidgetFixtures ==
    { <<>>,
      <<FxWidget(11, "left", Num(2), 1), FxWidget(12, "right", Num(1), 2)>>,
      <<FxWidget(11, "left", Num(2), 2), FxWidget(12, "left", Undefined, 2),
        FxWidget(13, "right", Num(1), 1)>> }
PostFixtures ==
    { <<>>, <<FxPost(21, 1), FxPost(22, 2)>>,
      <<FxPost(21, 2), FxPost(22, 1), FxPost(23, 2)>> }

\* For a fixed remote content, the first snapshots of the three subscriptions
\* arrive in any order.
InitOrder ==
    \E ps \in PageLists, ws \in WidgetFixtures, fs \in PostFixtures :
        Subscribed(StoreWith(ps, ws, fs))

NextOrder ==
    \/ DeliverPages
    \/ DeliverWidgets
    \/ DeliverFeed

SpecOrder == InitOrder /\ [][NextOrder]_vars

RemotePath == <<<<"a">>, "anon">>
Delivered(c) == ~dirty[c]

\* C9: whatever the order in which the three first snapshots arrive, once all
\* have arrived pages, widgets and feed hold the remote content, activePageId
\* is the page the content designates and the views are that page's records;
\* until then each mirror holds its content or is still empty, and no view
\* ever shows a record of a page other than activePageId.
C9_AnyOrderSameResult ==
    /\ pages = IF Delivered("niche_pages") THEN Docs(store, RemotePath, "niche_pages")
               ELSE <<>>
    /\ widgets = IF Delivered("widgets") THEN Docs(store, RemotePath, "widgets")
                 ELSE <<>>
    /\ Range(feed) = IF Delivered("feed_posts")
                     THEN Range(Docs(store, RemotePath, "feed_posts")) ELSE {}
    /\ \A i, j \in 1..Len(feed) : i < j => feed[i].timestamp >= feed[j].timestamp
    /\ activePageId = IF Delivered("niche_pages")
                      THEN DefaultPageId(Docs(store, RemotePath, "niche_pages"))
                      ELSE NoId
    /\ \A w \in Range(leftWidgets) \cup Range(rightWidgets) \cup Range(pageFeed) :
         w.pageId = activePageId
    /\ Cardinality(Range(leftWidgets)) + Cardinality(Range(rightWidgets))
         = Cardinality({w \in Range(widgets) : w.pageId = activePageId})
    /\ Cardinality(Range(pageFeed))
         = Cardinality({p \in Range(feed) : p.pageId = activePageId})

\* all three snapshots have arrived; page 2, flagged default, is active and
\* each view shows records of it
C9_Witness ==
    /\ \A c \in Collections : Delivered(c)
    /\ activePageId = 2
    /\ Len(leftWidgets) = 2 /\ Len(pageFeed) = 2
    /\ \E w \in Range(widgets) : w.pageId = 1

\* ------------------------------------------------- the configuration, edited
Field(k, valueText) == QuoteStr(<<k>>) \o <<COLON>> \o valueText
Object3(a, d, p) ==
    <<LB>> \o Field("apiKey", a) \o <<COMMA>> \o Field("authDomain", d)
           \o <<COMMA>> \o Field("projectId", p) \o <<RB>>

\* texts that are empty, are not JSON, or are JSON without the three fields
EmptyTexts == { <<>> }
InvalidJsonTexts ==
    { <<SP>>, <<LB>>, <<LB, RB, RB>>, <<"k">>,
      SubSeq(ConfigText, 1, Len(ConfigText) - 1) }
LackingFieldTexts ==
    { <<LB, RB>>, <<"null">>, <<"1">>, QuoteStr(<<"k">>),
      <<LB>> \o Field("apiKey", QuoteStr(<<"k">>)) \o <<COMMA>>
             \o Field("authDomain", QuoteStr(<<"d">>)) \o <<RB>>,
      <<LB>> \o Field("authDomain", QuoteStr(<<"d">>)) \o <<COMMA>>
             \o Field("projectId", QuoteStr(<<"p">>)) \o <<RB>> }
EmptyFieldTexts ==
    { Object3(QuoteStr(<<"k">>), QuoteStr(<<>>), QuoteStr(<<"p">>)),
      Object3(QuoteStr(<<>>), QuoteStr(<<"d">>), QuoteStr(<<"p">>)),
      Object3(QuoteStr(<<"k">>), QuoteStr(<<"d">>), <<"null">>),
      Object3(QuoteStr(<<"k">>), QuoteStr(<<"d">>), <<"0">>) }
RejectedTexts ==
    EmptyTexts \cup InvalidJsonTexts \cup LackingFieldTexts \cup EmptyFieldTexts

\* texts with the three fields non-empty, and the object each one denotes
ConfigObject ==
    Obj(<< <<<<"apiKey">>, Str(<<"k">>)>>, <<<<"authDomain">>, Str(<<"d">>)>>,
           <<<<"projectId">>, Str(<<"p">>)>> >>)
AcceptedConfigs ==
    { [text |-> ConfigText, obj |-> ConfigObject],
      [text |-> <<SP, LB, SP>> \o Field("projectId", QuoteStr(<<"p", SP>>))
                  \o <<SP, COMMA>> \o Field("extra", <<"0">>) \o <<COMMA>>
                  \o Field("authDomain", QuoteStr(<<"d">>)) \o <<COMMA, SP>>
                  \o Field("apiKey", <<"1">>) \o <<RB, SP>>,
       obj |-> Obj(<< <<<<"projectId">>, Str(<<"p", SP>>)>>, <<<<"extra">>, Num(0)>>,
                      <<<<"authDomain">>, Str(<<"d">>)>>, <<<<"apiKey">>, Num(1)>> >>)] }
AcceptedTexts == {c.text : c \in AcceptedConfigs}

\* browser storage in which the configuration item is the JSON object itself
ObjectStorage ==
    [Persisted(<<>>, <<>>, <<"a">>) EXCEPT !["selphi_firebase_config"] = Item(ConfigText)]

\* The configuration text is edited, into accepted and rejected values, while
\* the component initialises and signs in.
InitParse ==
    \E ls \in {EmptyStorage, Persisted(ConfigText, <<>>, <<"a">>), ObjectStorage} :
        Construct(ls, Null, EmptyStore)

NextParse ==
    \/ Mount
    \/ \E t \in RejectedTexts \cup AcceptedTexts :
         initAttempts < MaxInits /\ SetFirebaseConfigRaw(t)
    \/ AuthNotify
    \/ SignInResolve
    \/ SignInReject

SpecParse == InitParse /\ [][NextParse]_vars

\* the initializer ran in this step: at the mount, and whenever the value of
\* the firebaseConfig memo is not the null it was
InitializerRan == ~mounted \/ parseFirebaseConfig(firebaseConfigRaw) # Null

\* C4: when the configuration becomes (or is, at the mount) a text that is
\* empty, is not JSON, or lacks or has an empty value for apiKey, authDomain or
\* projectId, parseFirebaseConfig gives null, no handle is created and no
\* initialisation is attempted, and the initializer, when it runs, sets the
\* status to 'Awaiting Firebase config', all as for the empty text; a text
\* with the three fields non-empty (and an object value with them) is
\* accepted as the object it denotes and initialisation is attempted.
C4_RejectedConfigIsAbsent ==
    [][(mounted' /\ (~mounted \/ firebaseConfigRaw' # firebaseConfigRaw)) =>
        LET raw == firebaseConfigRaw'
            cfg == parseFirebaseConfig(raw)
        IN  /\ raw \in {Str(t) : t \in RejectedTexts} =>
                 /\ cfg = Null
                 /\ UNCHANGED <<apps, app, auth, db, initAttempts>>
                 /\ status' = IF InitializerRan THEN "Awaiting Firebase config"
                              ELSE status
            /\ \A c \in AcceptedConfigs : raw = Str(c.text) =>
                 /\ cfg = c.obj
                 /\ initAttempts' = initAttempts + 1
            /\ raw.t = "object" => cfg = raw /\ initAttempts' = initAttempts + 1]_vars

\* a configuration with an empty authDomain replaced an accepted one: the
\* status says so and the handles of the earlier initialisation are kept
C4_Witness ==
    /\ mounted
    /\ firebaseConfigRaw =
         Str(Object3(QuoteStr(<<"k">>), QuoteStr(<<>>), QuoteStr(<<"p">>)))
    /\ status = "Awaiting Firebase config"
    /\ Truthy(db) /\ initAttempts = 1

\* --------------------------------------------------- the settings, persisted
StorageAlphabet == {"a", DQ, BS}
RECURSIVE StringsUpTo(_)
StringsUpTo(n) ==
    IF n = 0 THEN { <<>> }
    ELSE StringsUpTo(n - 1)
         \cup {Append(t, c) : t \in {u \in StringsUpTo(n - 1) : Len(u) = n - 1},
                              c \in StorageAlphabet}
StorageStrings == StringsUpTo(MaxStrLen)
ShortStrings == StringsUpTo(MaxStrLen - 1)

\* The configuration is set to every string of at most MaxStrLen characters
\* and the token and the application id to every shorter one, in a browser
\* that never ran the component or did; the component is unmounted and
\* mounted again.
InitStorage ==
    \E ls \in {EmptyStorage, Persisted(<<>>, <<DQ>>, <<"a">>)} :
        Construct(ls, Null, EmptyStore)

NextStorage ==
    \/ Mount
    \/ Unmount
    \/ \E t \in StorageStrings : SetFirebaseConfigRaw(t)
    \/ \E t \in ShortStrings : SetCustomToken(t)
    \/ \E t \in ShortStrings : SetAppId(t)

SpecStorage == InitStorage /\ [][NextStorage]_vars

Setting(key) ==
    IF key = "selphi_firebase_config" THEN firebaseConfigRaw
    ELSE IF key = "__initial_auth_token" THEN customToken ELSE appId

PathNumber(path) ==
    (IF path[1] = <<"a">> THEN 10 ELSE 30) + (IF path[2] = "anon" THEN 0 ELSE 10)
PathDocs(n) ==
    [niche_pages |-> <<FxPage(n, TRUE)>>,
     widgets |-> <<FxWidget(n + 1, "left", Num(1), n)>>,
     feed_posts |-> <<FxPost(n + 2, n)>>]
PathStore == [path \in StorePaths |-> PathDocs(PathNumber(path))]

\* A browser with or without a token and a session of an earlier visit: the
\* component mounts and signs in, the application id is changed and cleared,
\* the session ends outside the component and another user signs in,
\* snapshots arrive, and the component is unmounted and mounted again.
InitSubs ==
    \E t \in {<<>>, <<"t">>}, sess \in {Null, User("anon")} :
        Construct(Persisted(ConfigText, t, <<"a">>), sess, PathStore)

NextSubs ==
    \/ Mount
    \/ Unmount
    \/ \E a \in AppIdTexts \cup {<<>>} : SetAppId(a)
    \/ AuthNotify
    \/ SignInResolve
    \/ ProviderSignOut
    \/ DeliverPages
    \/ DeliverWidgets
    \/ DeliverFeed

SpecSubs == InitSubs /\ [][NextSubs]_vars

SessionPresent == mounted /\ Truthy(db) /\ Truthy(user) /\ Truthy(appId)

\* none or all three subscriptions, all three exactly while db, user and
\* appId are present, on the path of the current appId and user
SubscriptionsTogether ==
    /\ (\A c \in Collections : subs[c].on) \/ (\A c \in Collections : ~subs[c].on)
    /\ \A c \in Collections :
         /\ subs[c].on <=> SessionPresent
         /\ subs[c].on => subs[c].path = <<appId.v, user.v>>
         /\ dirty[c] => subs[c].on

\* a record list the mirror takes in a step is the current path's
MirrorFromCurrentPath ==
    LET current == <<appId.v, user.v>> IN
    /\ (pages' # pages /\ mounted') =>
         SessionPresent /\ pages' = Docs(store, current, "niche_pages")
    /\ (widgets' # widgets /\ mounted') =>
         SessionPresent /\ widgets' = Docs(store, current, "widgets")
    /\ (feed' # feed /\ mounted') =>
         SessionPresent /\ Range(feed') = Range(Docs(store, current, "feed_posts"))
    /\ (pages' # pages \/ widgets' # widgets \/ feed' # feed) /\ mounted' =>
         appId' = appId /\ user' = user

\* C6: the three subscriptions are active together, exactly while db, user
\* and appId are all present (so none after an unmount or while one is
\* absent), each on the path of the current appId and user id; and whenever
\* pages, widgets or feed takes a snapshot, it is the content of that current
\* path, never of the path of an earlier appId or user.
C6_SubscriptionsTogether ==
    [][SubscriptionsTogether' /\ MirrorFromCurrentPath]_vars

\* after the application id went from "a" to "b" the three subscriptions are
\* on b's path; the pages of b have arrived, next to widgets that are still
\* a's, whose snapshot for b is yet to come
C6_Witness ==
    /\ SessionPresent /\ appId = Str(<<"b">>)
    /\ \A c \in Collections : subs[c].on /\ subs[c].path = <<<<"b">>, user.v>>
    /\ pages = Docs(store, <<<<"b">>, user.v>>, "niche_pages")
    /\ widgets = Docs(store, <<<<"a">>, user.v>>, "widgets")
    /\ dirty["widgets"] /\ ~dirty["niche_pages"]

\* The configuration and the token are edited while the component initialises
\* and signs in, initialisation and sign-in failing or succeeding, the session
\* ending outside the component, the component unmounted and mounted again.
InitConn == Construct(Persisted(ConfigText, <<>>, <<"a">>), Null, PathStore)

NextConn ==
    \/ Mount
    \/ Unmount
    \/ \E t \in {<<>>, ConfigText} : initAttempts < MaxInits /\ SetFirebaseConfigRaw(t)
    \/ \E t \in {<<>>, <<"t">>} : SetCustomToken(t)
    \/ AuthNotify
    \/ SignInResolve
    \/ SignInReject
    \/ ProviderSignOut

SpecConn == InitConn /\ [][NextConn]_vars

\* the step is a failed run of the initializer's try block
InitFailed == initAttempts' = initAttempts + 1 /\ status' = "Init error"
\* the step is a sign-in of this instance being rejected
AuthFailed ==
    /\ signIns # <<>> /\ Head(signIns).live /\ signIns' = Tail(signIns)
    /\ session' = session /\ status' = "Auth error"

PagesDelivered == subs["niche_pages"].on /\ ~dirty["niche_pages"]

\* C11 as claimed: once the current pages subscription has delivered a
\* snapshot, activePageId is null or the id of a page of the mirrored pages
\* list, also after the application id or the user changed.
C11_ActivePageInMirror ==
    PagesDelivered =>
        activePageId = NoId \/ \E i \in 1..Len(pages) : pages[i].id = activePageId

\* ------------------------------------------------------ the forms, written
\* text with no white space at either end
Trimmed(t) == t = <<>> \/ (t[1] # SP /\ t[Len(t)] # SP)
Blank(t) == \A i \in 1..Len(t) : t[i] = SP

\* a call of `Call` would change the store, the pending writes, a form or a
\* modal flag
Effective(Call) ==
    ENABLED (Call /\ ~UNCHANGED <<store, nextId, inflight, formVars, modalVars>>)

\* with a session and an application id, a call on a blank form, or without
\* an active page where one is needed, does nothing
BlankCallsNoOp ==
    SessionPresent =>
        /\ Blank(newPage.name) => ~Effective(CreatePage)
        /\ (Blank(newWidget.content) \/ activePageId = NoId) =>
              ~Effective(\E panel \in {"left", "right"} : CreateWidget(panel))
        /\ (Blank(newPost) \/ activePageId = NoId) => ~Effective(CreatePost)

\* the text a pending or stored document carries
TextOf(kind, d) == IF kind = "page" THEN d.name ELSE d.content
FormText(kind) ==
    IF kind = "page" THEN newPage.name
    ELSE IF kind = "widget" THEN newWidget.content ELSE newPost

\* a handler just made its addDoc call: one call, with the trimmed text of
\* its form, and nothing else changed yet
CallStep ==
    Len(inflight') = Len(inflight) + 1 =>
        LET e == inflight'[Len(inflight')] IN
        /\ inflight' = Append(inflight, e)
        /\ SessionPresent /\ e.path = <<appId.v, user.v>>
        /\ ~Blank(FormText(e.kind))
        /\ Trimmed(TextOf(e.kind, e.doc)) /\ TextOf(e.kind, e.doc) # <<>>
        /\ \E a, b \in 0..Len(FormText(e.kind)) :
             /\ FormText(e.kind) =
                  [i \in 1..a |-> SP] \o TextOf(e.kind, e.doc) \o [i \in 1..b |-> SP]
        /\ e.kind # "page" => activePageId # NoId /\ e.doc.pageId = activePageId
        /\ UNCHANGED <<store, nextId, formVars, modalVars>>

\* a write completed: exactly one document, with the text of its call, joined
\* one collection, and only now is the form of that call its initial value
\* again and the modal flag of that call cleared
ResolveStep ==
    store' # store =>
        \E k \in 1..Len(inflight) :
            LET w == inflight[k]
                before == Docs(store, w.path, w.c)
                after == Docs(store', w.path, w.c)
            IN  /\ inflight' = Without(inflight, k)
                /\ Len(after) = Len(before) + 1
                /\ SubSeq(after, 1, Len(before)) = before
                /\ TextOf(w.kind, after[Len(after)]) = TextOf(w.kind, w.doc)
                /\ \A path \in DOMAIN store, c \in Collections :
                     (path # w.path \/ c # w.c) => store'[path][c] = store[path][c]
                /\ w.kind = "page" =>
                     /\ newPage' = InitialPage /\ ~showPageModal'
                     /\ UNCHANGED <<newWidget, newPost, showLeftWidgetModal,
                                    showRightWidgetModal>>
                /\ w.kind = "widget" =>
                     /\ newWidget' = InitialWidget
                     /\ IF w.panel = "left"
                        THEN ~showLeftWidgetModal' /\ UNCHANGED showRightWidgetModal
                        ELSE ~showRightWidgetModal' /\ UNCHANGED showLeftWidgetModal
                     /\ UNCHANGED <<newPage, newPost, showPageModal>>
                /\ w.kind = "post" =>
                     /\ newPost' = InitialPost
                     /\ UNCHANGED <<newPage, newWidget, modalVars>>

\* a write failed, or nothing was written: no form is reset
NoResetWithoutWrite ==
    store' = store =>
        /\ Len(inflight') < Len(inflight) => UNCHANGED <<formVars, modalVars>>
        /\ newPage' # newPage => newPage' # InitialPage
        /\ newWidget' # newWidget => newWidget' # InitialWidget
        /\ newPost' # newPost => newPost' # InitialPost

====
